---------------------------- MODULE Spec2Model ----------------------------
(***************************************************************************)
(* Model of iscc-service: the task store and the URL task runner of        *)
(* iscc_service/tasks.py, and the file-upload handler from_file of         *)
(* iscc_service/main.py.                                                   *)
(*                                                                         *)
(* A stored task file is a sequence of tokens: "{", one token <<key,       *)
(* value>> per JSON member, "}".  A token stands for the bytes of one      *)
(* member, so a file that is longer in tokens is longer in bytes.          *)
(***************************************************************************)
EXTENDS Integers, Sequences, FiniteSets, TLC

(* ------------------------------ inputs -------------------------------- *)

\* two URL submissions, each run by one process_url: the concurrent scenario
Submissions == { 1, 2 }

\* URLs as sequences of code points: "a" and "a" followed by U+00E9
URLs == { <<97>>, <<97, 233>> }

Titles == { "T" }
Extras == { "E" }

DownloadErrors == { "HTTPError", "Timeout" }
ComputeErrors == { "ValueError" }

None == "None"

(* --------------------------- task records ----------------------------- *)

\* field order of the pydantic model: the base model's fields, then TaskResult's
FieldOrder ==
    << "url", "title", "extra", "task_id", "filename", "status", "message",
       "result" >>

\* a request body: url is required, title and extra are optional
URLRequest ==
    { [url |-> u, title |-> t, extra |-> e,
       fields_set |-> {"url"} \cup (IF t = None THEN {} ELSE {"title"})
                              \cup (IF e = None THEN {} ELSE {"extra"})] :
        u \in URLs, t \in Titles \cup {None}, e \in Extras \cup {None} }

\* TaskResult(**request): the optional fields of TaskResult start unset
TaskResult(r) ==
    [url |-> r.url, title |-> r.title, extra |-> r.extra,
     task_id |-> None, filename |-> None, status |-> None, message |-> None,
     result |-> None, fields_set |-> r.fields_set]

\* attribute assignment on a pydantic model: stores the value and marks the field set
SetField(rec, name, value) ==
    [[rec EXCEPT ![name] = value] EXCEPT !.fields_set = @ \cup {name}]

(* ----------------------------- task ids ------------------------------- *)

RECURSIVE encode_utf8(_)
\* str.encode("utf-8") for code points below U+0800
encode_utf8(s) ==
    IF s = << >> THEN << >>
    ELSE LET cp == Head(s)
         IN  (IF cp < 128 THEN << cp >>
              ELSE << 192 + (cp \div 64), 128 + (cp % 64) >>)
             \o encode_utf8(Tail(s))

\* the hash, as a free (hence injective) constructor over its input bytes
blake3(bytes) == << "blake3", bytes >>

RECURSIVE HexOf(_)
HexOf(bytes) ==
    IF bytes = << >> THEN << >>
    ELSE << Head(bytes) \div 16, Head(bytes) % 16 >> \o HexOf(Tail(bytes))

\* .hexdigest(): two hex digits per digest byte
hexdigest(d) == HexOf(d[2])

url_to_task_id(url) == hexdigest(blake3(encode_utf8(url)))

\* set_task_id that hashes only the first character of the URL
set_task_id_prefix(rec) ==
    SetField(SetField(rec, "task_id",
                      hexdigest(blake3(encode_utf8(SubSeq(rec.url, 1, 1))))),
             "status", "pending")

set_task_id(rec) ==
    SetField(SetField(rec, "task_id", hexdigest(blake3(encode_utf8(rec.url)))),
             "status", "pending")

TmpDir == "/tmp"

task_id_to_task_path(task_id) == << TmpDir, << "task-", task_id, ".json" >> >>

TaskIds == { url_to_task_id(u) : u \in URLs }

(* --------------------------- serialisation ---------------------------- *)

LBrace == << "{" >>
RBrace == << "}" >>

RECURSIVE Members(_, _)
Members(rec, i) ==
    IF i > Len(FieldOrder) THEN << >>
    ELSE (IF FieldOrder[i] \in rec.fields_set
          THEN << << FieldOrder[i], rec[FieldOrder[i]] >> >>
          ELSE << >>)
         \o Members(rec, i + 1)

\* self.json(exclude_unset=True)
Serialize(rec) == << LBrace >> \o Members(rec, 1) \o << RBrace >>

IsMember(tok) == Len(tok) = 2

\* a JSON document: one object, nothing before or after it
WellFormed(c) ==
    /\ Len(c) >= 2
    /\ c[1] = LBrace
    /\ c[Len(c)] = RBrace
    /\ \A i \in 2..(Len(c) - 1) : IsMember(c[i])

KeysOf(c) == { c[i][1] : i \in 2..(Len(c) - 1) }

\* the value of the last member named k (json.load keeps the last duplicate)
ValueOf(c, k) ==
    LET idx == { i \in 2..(Len(c) - 1) : c[i][1] = k }
    IN  c[CHOOSE i \in idx : \A j \in idx : j <= i][2]

NoRecord ==
    [url |-> None, title |-> None, extra |-> None, task_id |-> None,
     filename |-> None, status |-> None, message |-> None, result |-> None,
     fields_set |-> {}]

\* TaskResult(**json.load(infile)) on well-formed content
Deserialize(c) ==
    [f \in {"url", "title", "extra", "task_id", "filename", "status",
            "message", "result"} |->
        IF f \in KeysOf(c) THEN ValueOf(c, f) ELSE None]
    @@ [fields_set |-> KeysOf(c)]

\* pwrite of data at offset 0 into content
WriteAt0(content, data) ==
    data \o SubSeq(content, Len(data) + 1, Len(content))

\* load_task: open, read the whole file, parse
load_task(fs, task_id) ==
    LET tp == task_id_to_task_path(task_id)
    IN  IF tp \notin DOMAIN fs
        THEN [ok |-> FALSE, err |-> "FileNotFoundError", rec |-> NoRecord]
        ELSE IF ~WellFormed(fs[tp])
        THEN [ok |-> FALSE, err |-> "JSONDecodeError", rec |-> NoRecord]
        ELSE [ok |-> TRUE, err |-> "", rec |-> Deserialize(fs[tp])]

(* ------------------------------- state -------------------------------- *)

VARIABLES
    pc,       \* per submission: position in the submit handler / process_url
    fd,       \* per submission: state of the file object inside save
    mem,      \* per submission: the in-memory TaskResult (`status`)
    files,    \* the temp directory: task file path -> content
    wrote,    \* per submission: the data its latest write put in the file
    calls,    \* per submission: the external calls made so far, with their outcome
    seen,     \* per task id: the status last read successfully by load_task
    idTask,   \* task ids: two TaskResult objects
    idLookup, \* task ids: the latest url_to_task_id call, << url, task_id >>
    idPath,   \* task ids: per object, the task file path computed from its id
    upc,      \* per upload: position in from_file
    uin,      \* per upload: the request (sniffed media type, title, extra, ...)
    ulog,     \* per upload: the external calls from_file has made
    uresp,    \* per upload: the response
    appdir    \* the files under APP_DIR

taskVars == << pc, fd, mem, files, wrote, calls, seen >>
idVars == << idTask, idLookup, idPath >>
uploadVars == << upc, uin, ulog, uresp, appdir >>
vars == << taskVars, idVars, uploadVars >>

SavePcs ==
    { "create_save", "save_downloading", "save_failed", "save_processing",
      "save_success" }

\* where control continues when a save returns
AfterSave(p) ==
    CASE p = "create_save" -> "queued"
      [] p = "save_downloading" -> "download"
      [] p = "save_failed" -> "returned"
      [] p = "save_processing" -> "compute"
      [] p = "save_success" -> "returned"

PathOf(s) == task_id_to_task_path(mem[s].task_id)

TasksInit ==
    /\ pc = [s \in Submissions |-> "new"]
    /\ fd = [s \in Submissions |-> "closed"]
    /\ mem = [s \in Submissions |-> NoRecord]
    /\ files = << >>
    /\ wrote = [s \in Submissions |-> << >>]
    /\ calls = [s \in Submissions |-> << >>]
    /\ seen = [i \in TaskIds |-> "none"]

(* ------------------------------ actions ------------------------------- *)

\* the submit handler: build the task, set_task_id, then save (pending)
Submit(s, r) ==
    /\ pc[s] = "new"
    /\ mem' = [mem EXCEPT ![s] = set_task_id(TaskResult(r))]
    /\ pc' = [pc EXCEPT ![s] = "create_save"]
    /\ UNCHANGED << fd, files, wrote, calls, seen, idVars, uploadVars >>

\* save: open(task_file_path, "wt") creates or truncates the file
SaveOpen(s) ==
    /\ pc[s] \in SavePcs
    /\ fd[s] = "closed"
    /\ files' = [p \in DOMAIN files \cup {PathOf(s)} |->
                    IF p = PathOf(s) THEN << >> ELSE files[p]]
    /\ fd' = [fd EXCEPT ![s] = "open"]
    /\ UNCHANGED << pc, mem, wrote, calls, seen, idVars, uploadVars >>

\* save: the serialisation is written at the descriptor's offset, 0
SaveWrite(s) ==
    /\ pc[s] \in SavePcs
    /\ fd[s] = "open"
    /\ files' = [files EXCEPT ![PathOf(s)] = WriteAt0(@, Serialize(mem[s]))]
    /\ wrote' = [wrote EXCEPT ![s] = Serialize(mem[s])]
    /\ fd' = [fd EXCEPT ![s] = "written"]
    /\ UNCHANGED << pc, mem, calls, seen, idVars, uploadVars >>

\* save: leaving the with block closes the file; save returns
SaveClose(s) ==
    /\ pc[s] \in SavePcs
    /\ fd[s] = "written"
    /\ fd' = [fd EXCEPT ![s] = "closed"]
    /\ pc' = [pc EXCEPT ![s] = AfterSave(pc[s])]
    /\ UNCHANGED << mem, files, wrote, calls, seen, idVars, uploadVars >>

\* process_url starts: status = "downloading", then save
Start(s) ==
    /\ pc[s] = "queued"
    /\ mem' = [mem EXCEPT ![s] = SetField(@, "status", "downloading")]
    /\ pc' = [pc EXCEPT ![s] = "save_downloading"]
    /\ UNCHANGED << fd, files, wrote, calls, seen, idVars, uploadVars >>

\* download_file(url, folder=tempdir, sanitize=True): the local path
download_file(url) == << TmpDir, << "download", url >> >>

basename(path) == path[Len(path)]

\* DownloadOk with the wrong status literal: the task falls back to "pending"
DownloadOkPending(s) ==
    /\ pc[s] = "download"
    /\ calls' = [calls EXCEPT ![s] = Append(@, << "download_file", "returned" >>)]
    /\ mem' = [mem EXCEPT ![s] =
                  SetField(SetField(@, "status", "pending"),
                           "filename", basename(download_file(@.url)))]
    /\ pc' = [pc EXCEPT ![s] = "save_processing"]
    /\ UNCHANGED << fd, files, wrote, seen, idVars, uploadVars >>

\* download_file returns: status = "processing", filename, then save
DownloadOk(s) ==
    /\ pc[s] = "download"
    /\ calls' = [calls EXCEPT ![s] = Append(@, << "download_file", "returned" >>)]
    /\ mem' = [mem EXCEPT ![s] =
                  SetField(SetField(@, "status", "processing"),
                           "filename", basename(download_file(@.url)))]
    /\ pc' = [pc EXCEPT ![s] = "save_processing"]
    /\ UNCHANGED << fd, files, wrote, seen, idVars, uploadVars >>

\* DownloadRaise that returns without the save
DownloadRaiseNoSave(s, e) ==
    /\ pc[s] = "download"
    /\ calls' = [calls EXCEPT ![s] = Append(@, << "download_file", "raised" >>)]
    /\ mem' = [mem EXCEPT ![s] =
                  SetField(SetField(@, "status", "failed"),
                           "message", << "download failed with ", e >>)]
    /\ pc' = [pc EXCEPT ![s] = "returned"]
    /\ UNCHANGED << fd, files, wrote, seen, idVars, uploadVars >>

\* download_file raises e: status = "failed", message, save, return
DownloadRaise(s, e) ==
    /\ pc[s] = "download"
    /\ calls' = [calls EXCEPT ![s] = Append(@, << "download_file", "raised" >>)]
    /\ mem' = [mem EXCEPT ![s] =
                  SetField(SetField(@, "status", "failed"),
                           "message", << "download failed with ", e >>)]
    /\ pc' = [pc EXCEPT ![s] = "save_failed"]
    /\ UNCHANGED << fd, files, wrote, seen, idVars, uploadVars >>

\* `x or ""` for an optional string field
OrEmpty(rec, name) == IF name \in rec.fields_set THEN rec[name] ELSE ""

\* iscc.code_iscc(local_path, title, extra), as ISCC(**result).dict(exclude_unset=True)
code_iscc(local_path, title, extra) ==
    << "iscc", basename(local_path), title, extra >>

\* ComputeOk that forgets to store the result
ComputeOkNoResult(s) ==
    /\ pc[s] = "compute"
    /\ calls' = [calls EXCEPT ![s] = Append(@, << "code_iscc", "returned" >>)]
    /\ mem' = [mem EXCEPT ![s] =
                  SetField(SetField(@, "status", "success"),
                           "message", << "Processing Time: ", "elapsed" >>)]
    /\ pc' = [pc EXCEPT ![s] = "save_success"]
    /\ UNCHANGED << fd, files, wrote, seen, idVars, uploadVars >>

\* code_iscc returns: status = "success", result, message, then save
ComputeOk(s) ==
    /\ pc[s] = "compute"
    /\ calls' = [calls EXCEPT ![s] = Append(@, << "code_iscc", "returned" >>)]
    /\ mem' = [mem EXCEPT ![s] =
                  SetField(
                    SetField(SetField(@, "status", "success"), "result",
                             code_iscc(download_file(@.url),
                                       OrEmpty(@, "title"), OrEmpty(@, "extra"))),
                    "message", << "Processing Time: ", "elapsed" >>)]
    /\ pc' = [pc EXCEPT ![s] = "save_success"]
    /\ UNCHANGED << fd, files, wrote, seen, idVars, uploadVars >>

\* code_iscc raises e: status = "failed", message, return
ComputeRaise(s, e) ==
    /\ pc[s] = "compute"
    /\ calls' = [calls EXCEPT ![s] = Append(@, << "code_iscc", "raised" >>)]
    /\ mem' = [mem EXCEPT ![s] =
                  SetField(SetField(@, "status", "failed"),
                           "message", << "processing failed with ", e >>)]
    /\ pc' = [pc EXCEPT ![s] = "returned"]
    /\ UNCHANGED << fd, files, wrote, seen, idVars, uploadVars >>

\* a client (any process) calls load_task(task_id)
LoadTask(task_id) ==
    LET out == load_task(files, task_id)
    IN  /\ seen' = IF out.ok THEN [seen EXCEPT ![task_id] = out.rec.status]
                   ELSE seen
        /\ UNCHANGED << pc, fd, mem, files, wrote, calls, idVars, uploadVars >>

Next ==
    \/ \E s \in Submissions, r \in URLRequest : Submit(s, r)
    \/ \E s \in Submissions : SaveOpen(s)
    \/ \E s \in Submissions : SaveWrite(s)
    \/ \E s \in Submissions : SaveClose(s)
    \/ \E s \in Submissions : Start(s)
    \/ \E s \in Submissions : DownloadOk(s)
    \/ \E s \in Submissions, e \in DownloadErrors : DownloadRaise(s, e)
    \/ \E s \in Submissions : ComputeOk(s)
    \/ \E s \in Submissions, e \in ComputeErrors : ComputeRaise(s, e)
    \/ \E i \in TaskIds : LoadTask(i)

(* ------------------------- task ids, in isolation --------------------- *)

\* longest URL, in code points, drawn for SpecIds
MaxUrlLen == 2

Alphabet == { 97, 233 }

IdUrls == UNION { [1..k -> Alphabet] : k \in 1..MaxUrlLen }

IdObjects == { 1, 2 }

IdsIdle ==
    /\ idTask = [i \in IdObjects |-> NoRecord]
    /\ idLookup = << >>
    /\ idPath = [i \in IdObjects |-> << >>]

IdsDrawn ==
    /\ idTask \in [IdObjects ->
                     { TaskResult([url |-> u, title |-> None, extra |-> None,
                                   fields_set |-> {"url"}]) : u \in IdUrls }]
    /\ idLookup = << >>
    /\ idPath = [i \in IdObjects |-> << >>]

\* task.set_task_id()
SetTaskId(i) ==
    /\ "task_id" \notin idTask[i].fields_set
    /\ idTask' = [idTask EXCEPT ![i] = set_task_id(@)]
    /\ UNCHANGED << idLookup, idPath, taskVars, uploadVars >>

\* url_to_task_id(u)
UrlToTaskId(u) ==
    /\ idLookup' = << u, url_to_task_id(u) >>
    /\ UNCHANGED << idTask, idPath, taskVars, uploadVars >>

\* task_id_to_task_path(task.task_id)
TaskPath(i) ==
    /\ "task_id" \in idTask[i].fields_set
    /\ idPath[i] = << >>
    /\ idPath' = [idPath EXCEPT ![i] = task_id_to_task_path(idTask[i].task_id)]
    /\ UNCHANGED << idTask, idLookup, taskVars, uploadVars >>

NextIds ==
    \/ \E i \in IdObjects : SetTaskId(i)
    \/ \E u \in IdUrls : UrlToTaskId(u)
    \/ \E i \in IdObjects : TaskPath(i)

(* --------------------------- upload handler --------------------------- *)

\* concurrent from_file requests
NumUploads == 1

Uploads == 1..NumUploads

GMT_IMAGE == "image"
GMT_TEXT == "text"
GMT_AUDIO == "audio"
GMT_VIDEO == "video"

\* iscc_cli.const.SUPPORTED_MIME_TYPES, one media type per generic media type
SUPPORTED_MIME_TYPES == { "image/png", "text/plain", "audio/mpeg", "video/mp4" }

\* what the detector may report
MediaTypes == SUPPORTED_MIME_TYPES \cup { "application/x-dosexec" }

mime_to_gmt(mt) ==
    CASE mt = "image/png" -> GMT_IMAGE
      [] mt = "text/plain" -> GMT_TEXT
      [] mt = "audio/mpeg" -> GMT_AUDIO
      [] mt = "video/mp4" -> GMT_VIDEO

HTTP_415_UNSUPPORTED_MEDIA_TYPE == 415
HTTP_422_UNPROCESSABLE_ENTITY == 422

NoRequest == [media_type |-> "", title |-> "", content |-> ""]

\* what tika extracts as the text of an upload
Contents == { "", "words" }
NoResponse == [status |-> 0, detail |-> << >>]

\* an exception that is not an HTTPException leaves the handler: a 500 response
Uncaught(what) == [status |-> 500, detail |-> << what >>]

\* the temp file of upload u: join(APP_DIR, "{uuid4()}{ext}"), the uuid fresh per request
tmp_path(u) == << "APP_DIR", << "uuid4", u >> >>

UploadInit ==
    /\ upc = [u \in Uploads |-> "request"]
    /\ uin = [u \in Uploads |-> NoRequest]
    /\ ulog = [u \in Uploads |-> << >>]
    /\ uresp = [u \in Uploads |-> NoResponse]
    /\ appdir = {}

\* one more step of upload u: it made the call `what`, answers r (if any), goes to p
UStep(u, what, p, r) ==
    /\ ulog' = [ulog EXCEPT ![u] = Append(@, what)]
    /\ upc' = [upc EXCEPT ![u] = p]
    /\ uresp' = [uresp EXCEPT ![u] = r]

\* DetectMediaType without the check of the media type
DetectNoCheck(u, mt, title) ==
    /\ upc[u] = "request"
    /\ uin' = [uin EXCEPT ![u] =
                  [media_type |-> mt, title |-> title, content |-> ""]]
    /\ UStep(u, "detector.from_buffer", "parse", NoResponse)
    /\ UNCHANGED << appdir, taskVars, idVars >>

\* from_file is called: sniff the media type, reject an unsupported one with 415
DetectMediaType(u, mt, title) ==
    /\ upc[u] = "request"
    /\ uin' = [uin EXCEPT ![u] =
                  [media_type |-> mt, title |-> title, content |-> ""]]
    /\ IF mt \notin SUPPORTED_MIME_TYPES
       THEN UStep(u, "detector.from_buffer", "exited",
                  [status |-> HTTP_415_UNSUPPORTED_MEDIA_TYPE,
                   detail |-> << "Unsupported media type '", mt,
                                 "'. Please request support at ..." >>])
       ELSE UStep(u, "detector.from_buffer", "parse", NoResponse)
    /\ UNCHANGED << appdir, taskVars, idVars >>

\* seek(0), tika_result = parser.from_buffer(file.file)
ParseContent(u, ok, content) ==
    /\ upc[u] = "parse"
    /\ IF ok
       THEN /\ UStep(u, "parser.from_buffer", "meta", NoResponse)
            /\ uin' = [uin EXCEPT ![u].content = content]
       ELSE /\ UStep(u, "parser.from_buffer", "exited",
                     Uncaught("parser.from_buffer"))
            /\ UNCHANGED uin
    /\ UNCHANGED << appdir, taskVars, idVars >>

\* get_title when no title was given, iscc.meta_id, mime_to_gmt
MetaId(u, ok) ==
    /\ upc[u] = "meta"
    /\ uin' = [uin EXCEPT ![u].title = IF @ = "" THEN "guessed title" ELSE @]
    /\ IF ok
       THEN UStep(u, "iscc.meta_id", mime_to_gmt(uin[u].media_type), NoResponse)
       ELSE UStep(u, "iscc.meta_id", "exited", Uncaught("iscc.meta_id"))
    /\ UNCHANGED << appdir, taskVars, idVars >>

\* gmt == GMT.IMAGE: content_id_image
ContentIdImage(u, ok) ==
    /\ upc[u] = GMT_IMAGE
    /\ IF ok
       THEN UStep(u, "iscc.content_id_image", "data_id", NoResponse)
       ELSE UStep(u, "iscc.content_id_image", "exited",
                  Uncaught("iscc.content_id_image"))
    /\ UNCHANGED << uin, appdir, taskVars, idVars >>

\* gmt == GMT.TEXT: 422 when no text was extracted, else content_id_text
ContentIdText(u, ok) ==
    /\ upc[u] = GMT_TEXT
    /\ IF uin[u].content = ""
       THEN /\ upc' = [upc EXCEPT ![u] = "exited"]
            /\ uresp' = [uresp EXCEPT ![u] =
                            [status |-> HTTP_422_UNPROCESSABLE_ENTITY,
                             detail |-> << "Could not extract text" >>]]
            /\ UNCHANGED ulog
       ELSE IF ok
       THEN UStep(u, "iscc.content_id_text", "data_id", NoResponse)
       ELSE UStep(u, "iscc.content_id_text", "exited",
                  Uncaught("iscc.content_id_text"))
    /\ UNCHANGED << uin, appdir, taskVars, idVars >>

\* gmt == GMT.AUDIO: get_chroma_vector, content_id_audio
ContentIdAudio(u, ok) ==
    /\ upc[u] = GMT_AUDIO
    /\ IF ok
       THEN UStep(u, "audio_id.content_id_audio", "data_id", NoResponse)
       ELSE UStep(u, "audio_id.content_id_audio", "exited",
                  Uncaught("audio_id.content_id_audio"))
    /\ UNCHANGED << uin, appdir, taskVars, idVars >>

\* gmt == GMT.VIDEO: open(tmp_path, "wb") creates the temp file, copyfileobj fills it
VideoCopy(u, ok) ==
    /\ upc[u] = GMT_VIDEO
    /\ appdir' = appdir \cup { tmp_path(u) }
    /\ IF ok
       THEN UStep(u, "shutil.copyfileobj", "video_features", NoResponse)
       ELSE UStep(u, "shutil.copyfileobj", "exited", Uncaught("shutil.copyfileobj"))
    /\ UNCHANGED << uin, taskVars, idVars >>

\* get_frame_vectors(tmp_path), content_id_video(features)
ContentIdVideo(u, ok) ==
    /\ upc[u] = "video_features"
    /\ IF ok
       THEN UStep(u, "video_id.content_id_video", "video_remove", NoResponse)
       ELSE UStep(u, "video_id.content_id_video", "exited",
                  Uncaught("video_id.content_id_video"))
    /\ UNCHANGED << uin, appdir, taskVars, idVars >>

\* os.remove(tmp_path)
VideoRemove(u) ==
    /\ upc[u] = "video_remove"
    /\ appdir' = appdir \ { tmp_path(u) }
    /\ UStep(u, "os.remove", "data_id", NoResponse)
    /\ UNCHANGED << uin, taskVars, idVars >>

\* data_id, instance_id, the result is built, the upload is closed and returned
Finish(u, ok) ==
    /\ upc[u] = "data_id"
    /\ IF ok
       THEN UStep(u, "iscc.data_id", "exited",
                  [status |-> 200,
                   detail |-> << "iscc", mime_to_gmt(uin[u].media_type),
                                 uin[u].title >>])
       ELSE UStep(u, "iscc.data_id", "exited", Uncaught("iscc.data_id"))
    /\ UNCHANGED << uin, appdir, taskVars, idVars >>

NextUpload ==
    \/ \E u \in Uploads, mt \in MediaTypes, title \in {"", "T"} :
          DetectMediaType(u, mt, title)
    \/ \E u \in Uploads, ok \in BOOLEAN, content \in Contents :
          ParseContent(u, ok, content)
    \/ \E u \in Uploads, ok \in BOOLEAN : MetaId(u, ok)
    \/ \E u \in Uploads, ok \in BOOLEAN : ContentIdImage(u, ok)
    \/ \E u \in Uploads, ok \in BOOLEAN : ContentIdText(u, ok)
    \/ \E u \in Uploads, ok \in BOOLEAN : ContentIdAudio(u, ok)
    \/ \E u \in Uploads, ok \in BOOLEAN : VideoCopy(u, ok)
    \/ \E u \in Uploads, ok \in BOOLEAN : ContentIdVideo(u, ok)
    \/ \E u \in Uploads : VideoRemove(u)
    \/ \E u \in Uploads, ok \in BOOLEAN : Finish(u, ok)

(* --------------------------- specifications --------------------------- *)

Init == TasksInit /\ IdsIdle /\ UploadInit

\* the task store and the task runner
Spec == Init /\ [][Next]_vars

\* set_task_id, url_to_task_id and task_id_to_task_path on drawn URLs
InitIds == TasksInit /\ IdsDrawn /\ UploadInit

SpecIds == InitIds /\ [][NextIds]_vars

\* the upload handler
SpecUpload == Init /\ [][NextUpload]_vars

(* ----------------------- properties: task runner ---------------------- *)

Range(q) == { q[i] : i \in 1..Len(q) }

\* submission s has been made and no other submission made so far has its URL
Sole(s) ==
    /\ pc[s] # "new"
    /\ \A t \in Submissions \ {s} : pc[t] # "new" => mem[t].url # mem[s].url

\* what load_task returns for the task of submission s in the current state
Persisted(s) == load_task(files, mem[s].task_id)

Rank(st) ==
    CASE st = "none" -> 0
      [] st = "pending" -> 1
      [] st = "downloading" -> 2
      [] st = "processing" -> 3
      [] st = "success" -> 4
      [] st = "failed" -> 4
      [] OTHER -> -1

\* C1: when process_url returns after a successful download and a raising
\* fingerprint computation, the persisted record has status "failed" and a message.
C1_ComputeFailurePersisted ==
    \A s \in Submissions :
        ( /\ Sole(s)
          /\ pc[s] = "returned"
          /\ << "download_file", "returned" >> \in Range(calls[s])
          /\ << "code_iscc", "raised" >> \in Range(calls[s]) )
        => /\ Persisted(s).ok
           /\ Persisted(s).rec.status = "failed"
           /\ "message" \in Persisted(s).rec.fields_set

\* C2: for a task created once and run by one process_url, every status that
\* load_task reads is one of the five, a newly read status is strictly later in
\* pending < downloading < processing < {success, failed} than the one read
\* before, and nothing different is read after success or failed.
C2_StatusMonotonic ==
    [][ \A s \in Submissions :
          Sole(s)' =>
            LET id == mem'[s].task_id
            IN  seen'[id] # seen[id] =>
                  /\ Rank(seen'[id]) >= 1
                  /\ Rank(seen'[id]) > Rank(seen[id]) ]_vars

C2_Witness ==
    \E s \in Submissions :
        /\ Sole(s)
        /\ pc[s] = "returned"
        /\ seen[mem[s].task_id] = "success"

\* a save of the file at path p is between its open and its close
SaveInProgress(p) ==
    \E s \in Submissions :
        /\ pc[s] \in SavePcs
        /\ fd[s] # "closed"
        /\ PathOf(s) = p

\* submission s is in process_url and past its first save there
PastFirstSave(s) ==
    pc[s] \in { "download", "save_failed", "save_processing", "compute",
                "save_success", "returned" }

\* C3: when two submissions of one URL both run process_url, then whenever no
\* save of the task file is in progress the file holds exactly what one of
\* the saves wrote.
C3_NoMixedFile ==
    \A s, t \in Submissions :
        ( /\ s # t
          /\ PastFirstSave(s)
          /\ PastFirstSave(t)
          /\ mem[s].url = mem[t].url
          /\ ~SaveInProgress(PathOf(s)) )
        => \/ files[PathOf(s)] = wrote[s]
           \/ files[PathOf(s)] = wrote[t]

\* C4: when process_url returns after the downloader raised, the persisted
\* record is retrievable, has status "failed" and a non-empty message, has no
\* filename and no result, and the fingerprint computation was never invoked.
C4_DownloadFailure ==
    \A s \in Submissions :
        ( /\ Sole(s)
          /\ pc[s] = "returned"
          /\ << "download_file", "raised" >> \in Range(calls[s]) )
        => /\ Persisted(s).ok
           /\ Persisted(s).rec.status = "failed"
           /\ "message" \in Persisted(s).rec.fields_set
           /\ Len(Persisted(s).rec.message) > 0
           /\ Persisted(s).rec.fields_set \cap {"filename", "result"} = {}
           /\ mem[s].fields_set \cap {"filename", "result"} = {}
           /\ \A c \in Range(calls[s]) : c[1] # "code_iscc"

C4_Witness ==
    \E s \in Submissions :
        /\ Sole(s)
        /\ pc[s] = "returned"
        /\ << "download_file", "raised" >> \in Range(calls[s])
        /\ seen[mem[s].task_id] = "failed"

\* C7: every persisted task record carries a result exactly when its status
\* is "success".
C7_ResultIffSuccess ==
    \A p \in DOMAIN files :
        WellFormed(files[p]) =>
            ( "result" \in Deserialize(files[p]).fields_set
              <=> Deserialize(files[p]).status = "success" )

C7_Witness ==
    \E p \in DOMAIN files :
        /\ WellFormed(files[p])
        /\ Deserialize(files[p]).status = "success"
        /\ "result" \in Deserialize(files[p]).fields_set

\* C9: in process_url the downloader is invoked only after "downloading" has
\* been saved, the computation only after "processing" and the filename have
\* been saved, and on return the in-memory status equals the persisted one.
C9_SavedBeforeNextStep ==
    \A s \in Submissions :
        Sole(s) =>
            /\ pc[s] = "download" =>
                  /\ Persisted(s).ok
                  /\ Persisted(s).rec.status = "downloading"
            /\ pc[s] = "compute" =>
                  /\ Persisted(s).ok
                  /\ Persisted(s).rec.status = "processing"
                  /\ "filename" \in Persisted(s).rec.fields_set
                  /\ Persisted(s).rec.filename = mem[s].filename
            /\ pc[s] = "returned" =>
                  /\ Persisted(s).ok
                  /\ Persisted(s).rec.status = mem[s].status

\* C10: once the record of a task run by one process_url has been created,
\* load_task succeeds at every point and returns a complete record that a
\* save wrote.
C10_LoadAlwaysSucceeds ==
    \A s \in Submissions :
        (Sole(s) /\ pc[s] # "create_save")
        => /\ Persisted(s).ok
           /\ files[PathOf(s)] = wrote[s]

(* ------------------------- properties: task ids ----------------------- *)

HasId(i) == "task_id" \in idTask[i].fields_set

\* C6: set_task_id assigns exactly url_to_task_id(url); two tasks have the
\* same task_id, and the same task file path, exactly when they have the
\* same URL.
C6_TaskIdFunctionOfUrl ==
    \A i, j \in IdObjects :
        /\ (HasId(i) /\ idLookup # << >>)
              => (idLookup[1] = idTask[i].url <=> idLookup[2] = idTask[i].task_id)
        /\ (HasId(i) /\ HasId(j))
              => (idTask[i].url = idTask[j].url
                    <=> idTask[i].task_id = idTask[j].task_id)
        /\ (idPath[i] # << >> /\ idPath[j] # << >>)
              => (idTask[i].url = idTask[j].url <=> idPath[i] = idPath[j])

C6_Witness ==
    /\ idTask[1].url = idTask[2].url
    /\ idPath[1] # << >>
    /\ idPath[2] # << >>
    /\ idLookup # << >>
    /\ idLookup[1] # idTask[1].url
    /\ Len(idLookup[1]) = Len(idTask[1].url)

(* ---------------------- properties: upload handler -------------------- *)

\* the calls that compute the content id
ContentIdCalls ==
    { "iscc.content_id_image", "iscc.content_id_text",
      "audio_id.content_id_audio", "video_id.content_id_video" }

\* C5: when from_file exits with a result, with the 415 rejection or with an
\* exception raised by the content-id computation, the temp file the request
\* created under APP_DIR is gone.
C5_NoTempFileLeft ==
    \A u \in Uploads :
        ( /\ upc[u] = "exited"
          /\ \/ uresp[u].status \in {200, HTTP_415_UNSUPPORTED_MEDIA_TYPE}
             \/ /\ uresp[u].status = 500
                /\ uresp[u].detail[1] \in ContentIdCalls )
        => tmp_path(u) \notin appdir

\* C8: an upload whose sniffed media type is unsupported gets a 415 whose
\* message names the type, and from_file has then made no call but the
\* sniffing one and has created no temp file.
C8_UnsupportedRejectedFirst ==
    \A u \in Uploads :
        (upc[u] # "request" /\ uin[u].media_type \notin SUPPORTED_MIME_TYPES)
        => /\ upc[u] = "exited"
           /\ uresp[u].status = HTTP_415_UNSUPPORTED_MEDIA_TYPE
           /\ uresp[u].detail[2] = uin[u].media_type
           /\ ulog[u] = << "detector.from_buffer" >>
           /\ tmp_path(u) \notin appdir

C8_Witness ==
    \E u \in Uploads :
        /\ upc[u] = "exited"
        /\ uin[u].media_type = "application/x-dosexec"
        /\ uresp[u].status = HTTP_415_UNSUPPORTED_MEDIA_TYPE

=============================================================================
